---- MODULE Spec2Model ----
(***************************************************************************)
(* A model of zimpy, a reader and HTTP server for ZIM archives.            *)
(*                                                                         *)
(* The repository holds two generations of the reader:                     *)
(*   src/zimpy.py + src/structs.py          (ZIMFile, ZIMServer, bisect)   *)
(*   src/zimpy/server.py + src/zimpy/structs.py   (WikiServer)             *)
(* Both are modelled, each operation under the name it has in the source.  *)
(*                                                                         *)
(* Python indexes from 0 and TLA+ sequences from 1: the dirent the code    *)
(* reaches through urls[i] is entries[i + 1] here.                         *)
(***************************************************************************)
EXTENDS Integers, Sequences, FiniteSets, TLC

(***************************************************************************)
(* Bounds of the model.                                                    *)
(***************************************************************************)
\* The largest entryCount (articleCount) of the archives the lookups run on.
MaxEntries == 3

(***************************************************************************)
(* Strings and keys.  A string is a sequence of code points; Python        *)
(* compares str with str and bytes with bytes lexicographically, a proper  *)
(* prefix being the smaller.                                               *)
(***************************************************************************)
StrLess(a, b) ==
    \E i \in 1..(Len(b)) :
        /\ i <= Len(a) + 1
        /\ \A j \in 1..(i - 1) : a[j] = b[j]
        /\ (i = Len(a) + 1 \/ a[i] < b[i])

\* The namespace of a dirent is one byte (c_char, a bytes object of length
\* 1): "-" and "A", src/zimpy.py:8-9.
NsSet == {<<45>>, <<65>>}

\* The urls and titles the archives are built from ("a", "ab", "b"), and the
\* texts a query may carry.
UrlSet == {<<97>>, <<97, 98>>, <<98>>}
TitleSet == {<<>>, <<97>>, <<98>>}
QuerySet == {<<>>, <<97>>, <<97, 97>>, <<97, 98>>, <<98>>, <<98, 98>>}

(***************************************************************************)
(* The archive: the dirents in URL-pointer order, the title-pointer array  *)
(* (indices into the URL-pointer array) and the header's mainPage.         *)
(***************************************************************************)
VARIABLES entries, titlePtrList, mainPage

archVars == <<entries, titlePtrList, mainPage>>

\* header.entryCount (src/structs.py) / header.articleCount (src/zimpy/structs.py)
entryCount == Len(entries)

\* Dirent(self.header.buf, self.urlPtrList[index])
UrlDirent(index) == entries[index + 1]

\* d.title or d.url
TitleOrUrl(d) == IF d.title # <<>> THEN d.title ELSE d.url

\* (namespace, text) < (ns, text2) as Python orders tuples
TupleLess(ns1, s1, ns2, s2) ==
    StrLess(ns1, ns2) \/ (ns1 = ns2 /\ StrLess(s1, s2))

\* A content dirent (ContentDirent in src/structs.py, ArticleDirent in
\* src/zimpy/structs.py) and a redirect dirent.  A redirect dirent has no
\* clusterNumber and no blobNumber field, a content dirent no redirect_index.
ContentDirent(ns, url, title) ==
    [kind |-> "content", namespace |-> ns, url |-> url, title |-> title,
     redirect_index |-> -1, clusterNumber |-> 0, blobNumber |-> 0]

RedirectDirent(ns, url, title, target) ==
    [kind |-> "redirect", namespace |-> ns, url |-> url, title |-> title,
     redirect_index |-> target, clusterNumber |-> -1, blobNumber |-> -1]

\* Archives whose URL-pointer array is sorted ascending by (namespace, url).
SortedEntries ==
    UNION { { s \in [1..n -> {ContentDirent(ns, u, t) :
                                 ns \in NsSet, u \in UrlSet, t \in TitleSet}] :
                \A i \in 1..(n - 1) :
                    TupleLess(s[i].namespace, s[i].url,
                              s[i + 1].namespace, s[i + 1].url) }
            : n \in 0..MaxEntries }

\* Title-pointer arrays of an archive: a permutation of the URL indices,
\* sorted by (namespace, title-or-url).
TitlePtrLists(es) ==
    { p \in [1..Len(es) -> 0..(Len(es) - 1)] :
        /\ \A i, j \in 1..Len(es) : i # j => p[i] # p[j]
        /\ \A i \in 1..(Len(es) - 1) :
              ~ TupleLess(es[p[i + 1] + 1].namespace, TitleOrUrl(es[p[i + 1] + 1]),
                          es[p[i] + 1].namespace, TitleOrUrl(es[p[i] + 1])) }

(***************************************************************************)
(* The lookups.  One call is in progress at a time: fun names the function *)
(* called, pc its position, outcome and retval what it returned or raised. *)
(***************************************************************************)
VARIABLES fun, pc, qns, qtext, low, high, middle, left, right, mid,
          outcome, retval

lookVars == <<fun, pc, qns, qtext, low, high, middle, left, right, mid,
              outcome, retval>>

(***************************************************************************)
(* The routes.  route names the handler that is serving a request, dirent  *)
(* the URL-pointer index of the dirent it holds, response what it answered     *)
(* (a status, or the exception that left the handler), served the blob     *)
(* number it read.  urlIndexUsed records the last index a handler used on  *)
(* the URL-pointer array.                                                  *)
(***************************************************************************)
VARIABLES route, dirent, response, served, urlIndexUsed

routeVars == <<route, dirent, response, served, urlIndexUsed>>

(***************************************************************************)
(* The enumeration pass that fills the search index.  efun names the       *)
(* function running, epc its position, loop_i the loop variable i, visited  *)
(* the indices the loop body has run for, batch the rows waiting for       *)
(* executemany, rows the rows in the table, batch_size the parameter of    *)
(* create_and_populate_db.                                                 *)
(***************************************************************************)
VARIABLES efun, epc, loop_i, visited, batch, rows, batch_size

enumVars == <<efun, epc, loop_i, visited, batch, rows, batch_size>>

(***************************************************************************)
(* The byte-level readers (the mimetype list, the blobs of an uncompressed *)
(* cluster): buf is the mapped file, offset the place of the structure in  *)
(* it, content the strings or blobs the structure was built from, op the   *)
(* operation applied, arg its argument and result what it returned or      *)
(* raised.                                                                 *)
(***************************************************************************)
VARIABLES buf, offset, content, op, arg, result

byteVars == <<buf, offset, content, op, arg, result>>

(***************************************************************************)
(* The clusters under concurrent requests.  info is the cluster's info     *)
(* byte and stream its body as the decoder meets it, 1024 bytes at a time. *)
(* module says which generation of the reader runs.  cache is the          *)
(* lru_cache of the class Cluster, instances the Cluster objects made so   *)
(* far; per request thread: tpc its position, cl its Cluster object, dec   *)
(* its decompressor, got what its get_blob_data ended with.                *)
(* decompressions counts the decompressors started on the cluster body.    *)
(***************************************************************************)
VARIABLES module, info, stream, cache, instances, tpc, cl, dec, got,
          decompressions

clusterVars == <<module, info, stream, cache, instances, tpc, cl, dec, got,
                 decompressions>>

\* The variables of the sections that the lookups and the routes leave alone.
sideVars == <<enumVars, byteVars, clusterVars>>

vars == <<archVars, lookVars, routeVars, enumVars, byteVars, clusterVars>>

SideInit ==
    /\ efun = "none" /\ epc = "idle" /\ loop_i = 0 /\ visited = <<>>
    /\ batch = <<>> /\ rows = <<>> /\ batch_size = 0
    /\ buf = <<>> /\ offset = 0 /\ content = <<>> /\ op = "none" /\ arg = 0 /\ result = [kind |-> "none"]
    /\ module = "none" /\ info = 0 /\ stream = <<>> /\ cache = 0
    /\ instances = <<>> /\ tpc = <<>> /\ cl = <<>> /\ dec = <<>>
    /\ got = <<>> /\ decompressions = 0

\* ZIMFile._compare_url
_compare_url(index, ns, url) ==
    LET d == UrlDirent(index) IN
    IF d.namespace = ns /\ d.url = url THEN 0
    ELSE IF StrLess(d.namespace, ns) \/ (d.namespace = ns /\ StrLess(d.url, url))
         THEN -1
    ELSE 1

\* _compare_title without the fallback to the url: compares d.title alone.
_compare_title_NoFallback(index, ns, title) ==
    LET urlIndex == titlePtrList[index + 1]
        d == UrlDirent(urlIndex)
        title_from_data == d.title IN
    IF d.namespace = ns /\ title_from_data = title THEN 0
    ELSE IF StrLess(d.namespace, ns)
            \/ (d.namespace = ns /\ StrLess(title_from_data, title))
         THEN -1
    ELSE 1

\* ZIMFile._compare_title
_compare_title(index, ns, title) ==
    LET urlIndex == titlePtrList[index + 1]
        d == UrlDirent(urlIndex)
        title_from_data == TitleOrUrl(d) IN
    IF d.namespace = ns /\ title_from_data = title THEN 0
    ELSE IF StrLess(d.namespace, ns)
            \/ (d.namespace = ns /\ StrLess(title_from_data, title))
         THEN -1
    ELSE 1

\* The lambda findByUrl / findByTitle hands to bisect.
compare_function(index) ==
    IF fun = "findByTitle" THEN _compare_title(index, qns, qtext)
    ELSE _compare_url(index, qns, qtext)

\* Entering findByUrl(ns, url): bisect(lambda ..., 0, self.header.entryCount)
findByUrl_enter(ns, url) ==
    /\ fun' = "findByUrl" /\ qns' = ns /\ qtext' = url
    /\ low' = 0 /\ high' = entryCount
    /\ pc' = "while"
    /\ UNCHANGED <<archVars, sideVars, middle, left, right, mid, outcome, retval>>

\* ZIMFile.findByUrl(ns, url), called on its own.
findByUrl(ns, url) ==
    /\ pc = "idle" /\ route = "none"
    /\ findByUrl_enter(ns, url)
    /\ UNCHANGED routeVars

\* ZIMFile.findByTitle(ns, title), called on its own (no route calls it):
\* bisect(lambda ..., 0, self.header.entryCount)
findByTitle(ns, title) ==
    /\ pc = "idle" /\ route = "none"
    /\ fun' = "findByTitle" /\ qns' = ns /\ qtext' = title
    /\ low' = 0 /\ high' = entryCount
    /\ pc' = "while"
    /\ UNCHANGED <<archVars, sideVars, routeVars, middle, left, right, mid, outcome, retval>>

\* bisect: the loop test `while low < high`, and `raise IndexError` after it.
bisect_while ==
    /\ pc = "while" /\ fun \in {"findByUrl", "findByTitle"}
    /\ IF low < high
       THEN /\ middle' = (low + high) \div 2
            /\ pc' = "body"
            /\ UNCHANGED <<outcome, retval>>
       ELSE /\ outcome' = "IndexError"
            /\ pc' = "done"
            /\ UNCHANGED <<middle, retval>>
    /\ UNCHANGED <<archVars, sideVars, routeVars, fun, qns, qtext, low, high, left, right, mid>>

\* What one pass of bisect's loop body assigns to low.
bisect_low_next == middle

\* bisect: one pass of the loop body.
bisect_body ==
    /\ pc = "body" /\ fun \in {"findByUrl", "findByTitle"}
    /\ LET comp == compare_function(middle) IN
       IF comp = 0
       THEN /\ outcome' = "return" /\ retval' = middle /\ pc' = "done"
            /\ UNCHANGED <<low, high>>
       ELSE IF comp < 0
       THEN /\ low' = bisect_low_next /\ pc' = "while"
            /\ UNCHANGED <<high, outcome, retval>>
       ELSE /\ high' = middle /\ pc' = "while"
            /\ UNCHANGED <<low, outcome, retval>>
    /\ UNCHANGED <<archVars, sideVars, routeVars, fun, qns, qtext, middle, left, right, mid>>

\* Entering WikiServer.find_by_url(ns, url): left = 0, right = articleCount - 1
find_by_url_enter(ns, url) ==
    /\ fun' = "find_by_url" /\ qns' = ns /\ qtext' = url
    /\ left' = 0 /\ right' = entryCount - 1
    /\ pc' = "while"
    /\ UNCHANGED <<archVars, sideVars, low, high, middle, mid, outcome, retval>>

\* WikiServer.find_by_url(ns, url), called on its own.
find_by_url(ns, url) ==
    /\ pc = "idle" /\ route = "none"
    /\ find_by_url_enter(ns, url)
    /\ UNCHANGED routeVars

\* WikiServer.find_by_url: the loop test `while left <= right`, and the raise.
find_by_url_while ==
    /\ pc = "while" /\ fun = "find_by_url"
    /\ IF left <= right
       THEN /\ mid' = (left + right) \div 2
            /\ pc' = "body"
            /\ UNCHANGED <<outcome, retval>>
       ELSE /\ outcome' = "IndexError"
            /\ pc' = "done"
            /\ UNCHANGED <<mid, retval>>
    /\ UNCHANGED <<archVars, sideVars, routeVars, fun, qns, qtext, low, high, middle, left, right>>

\* WikiServer.find_by_url: one pass of the loop body.
find_by_url_body ==
    /\ pc = "body" /\ fun = "find_by_url"
    /\ LET d == UrlDirent(mid) IN
       IF TupleLess(d.namespace, d.url, qns, qtext)
       THEN /\ left' = mid + 1 /\ pc' = "while"
            /\ UNCHANGED <<right, outcome, retval>>
       ELSE IF TupleLess(qns, qtext, d.namespace, d.url)
       THEN /\ right' = mid - 1 /\ pc' = "while"
            /\ UNCHANGED <<left, outcome, retval>>
       ELSE /\ outcome' = "return" /\ retval' = mid /\ pc' = "done"
            /\ UNCHANGED <<left, right>>
    /\ UNCHANGED <<archVars, sideVars, routeVars, fun, qns, qtext, low, high, middle, mid>>

LookupInit ==
    /\ entries \in SortedEntries
    /\ titlePtrList \in TitlePtrLists(entries)
    /\ mainPage = 0
    /\ fun = "none" /\ pc = "idle" /\ qns = <<>> /\ qtext = <<>>
    /\ low = 0 /\ high = 0 /\ middle = 0
    /\ left = 0 /\ right = 0 /\ mid = 0
    /\ outcome = "none" /\ retval = 0
    /\ route = "none" /\ dirent = 0 /\ response = "none" /\ served = -1
    /\ urlIndexUsed = -1
    /\ SideInit

LookupNext ==
    \/ \E ns \in NsSet, url \in QuerySet : findByUrl(ns, url)
    \/ \E ns \in NsSet, title \in QuerySet : findByTitle(ns, title)
    \/ \E ns \in NsSet, url \in QuerySet : find_by_url(ns, url)
    \/ bisect_while
    \/ bisect_body
    \/ find_by_url_while
    \/ find_by_url_body

\* The lookups on every sorted archive of at most MaxEntries entries.
LookupSpec == LookupInit /\ [][LookupNext]_vars

\* A call, once made, keeps running: the loops are single-threaded code.
LookupFairSpec == LookupSpec /\ WF_vars(LookupNext)

(***************************************************************************)
(* The routes of WikiServer (src/zimpy/server.py) and of ZIMServer         *)
(* (src/zimpy.py).  A request path is a string; "/" is code point 47.      *)
(***************************************************************************)
Slash == 47

\* The characters the pattern [a-zA-Z-] of get_page accepts.
IsNsChar(c) == c \in 65..90 \/ c \in 97..122 \/ c = 45

\* The place of the first "/" in a path that holds one.
FirstSlash(path) ==
    CHOOSE i \in 1..Len(path) :
        path[i] = Slash /\ \A j \in 1..(i - 1) : path[j] # Slash

\* url.split("/", 1) of a path that holds a "/": <<before, after>>.
SplitAtSlash(path) ==
    <<SubSeq(path, 1, FirstSlash(path) - 1),
      SubSeq(path, FirstSlash(path) + 1, Len(path))>>

\* get_page: ns, url = ("A", url) if not re.match(r"^[a-zA-Z-]/", url)
\*                     else url.split("/", 1)
get_page_split(path) ==
    IF Len(path) >= 2 /\ IsNsChar(path[1]) /\ path[2] = Slash
    THEN SplitAtSlash(path)
    ELSE <<(<<65>>), path>>

\* ZIMServer.url: if "/" not in url: url = "A/" + url; url.split("/", 1)
url_split(path) ==
    IF \E i \in 1..Len(path) : path[i] = Slash
    THEN SplitAtSlash(path)
    ELSE SplitAtSlash(<<65, Slash>> \o path)

\* header.mainPage of an archive without a main page: the c_uint32 field
\* with every bit set (0xFFFFFFFF).  The model writes it as the largest
\* integer TLC has; all that matters is that it exceeds every entryCount,
\* so that the URL-pointer array holds no such index.
AbsentMainPage == 2147483647

\* What render_page (WikiServer) and the tail of index / url (ZIMServer) do
\* with a dirent: they read dirent.clusterNumber and dirent.blobNumber, which
\* a redirect dirent does not have (AttributeError), and answer with that
\* blob.  The cluster's own decoding is modelled in the cluster section.
ServeDirent(index) ==
    IF UrlDirent(index).kind = "redirect"
    THEN [response |-> "AttributeError", served |-> -1]
    ELSE [response |-> "200", served |-> UrlDirent(index).blobNumber]

\* WikiServer, route "/<path:url>": get_page up to the call of find_by_url.
get_page(path) ==
    /\ pc = "idle" /\ route = "none"
    /\ route' = "get_page"
    /\ find_by_url_enter(get_page_split(path)[1], get_page_split(path)[2])
    /\ UNCHANGED <<dirent, response, served, urlIndexUsed>>

\* get_page: find_by_url has returned (d = Dirent(urls[idx])) or raised
\* IndexError (the 404 response).
get_page_found ==
    /\ route = "get_page" /\ pc = "done"
    /\ IF outcome = "IndexError"
       THEN /\ response' = "404" /\ pc' = "responded"
            /\ UNCHANGED <<dirent, urlIndexUsed>>
       ELSE /\ dirent' = retval /\ urlIndexUsed' = retval
            /\ pc' = "redirect_while"
            /\ UNCHANGED response
    /\ UNCHANGED <<archVars, sideVars, fun, qns, qtext, low, high, middle, left, right,
                   mid, outcome, retval, route, served>>

\* get_page: the test of `while d.kind == "redirect"`, and render_page(d)
\* after the loop.
get_page_while ==
    /\ route = "get_page" /\ pc = "redirect_while"
    /\ IF UrlDirent(dirent).kind = "redirect"
       THEN /\ pc' = "redirect_body"
            /\ UNCHANGED <<response, served>>
       ELSE /\ response' = ServeDirent(dirent).response
            /\ served' = ServeDirent(dirent).served
            /\ pc' = "responded"
    /\ UNCHANGED <<archVars, sideVars, fun, qns, qtext, low, high, middle, left, right,
                   mid, outcome, retval, route, dirent, urlIndexUsed>>

\* get_page: the loop body, d = Dirent(self.h.buf, self.urls[d.redirect_index])
get_page_redirect ==
    /\ route = "get_page" /\ pc = "redirect_body"
    /\ dirent' = UrlDirent(dirent).redirect_index
    /\ urlIndexUsed' = UrlDirent(dirent).redirect_index
    /\ pc' = "redirect_while"
    /\ UNCHANGED <<archVars, sideVars, fun, qns, qtext, low, high, middle, left, right,
                   mid, outcome, retval, route, response, served>>

\* WikiServer, route "/": render_page(Dirent(self.h.buf, self.urls[mainPage])).
\* BaseList.__getitem__ unpacks at offset + index * 8, which for the absent
\* main page lies past the end of the mapped file: struct.error.
WikiServer_index ==
    /\ pc = "idle" /\ route = "none"
    /\ route' = "WikiServer.index"
    /\ urlIndexUsed' = mainPage
    /\ IF mainPage < entryCount
       THEN /\ dirent' = mainPage
            /\ response' = ServeDirent(mainPage).response
            /\ served' = ServeDirent(mainPage).served
       ELSE /\ response' = "struct.error"
            /\ UNCHANGED <<dirent, served>>
    /\ pc' = "responded"
    /\ UNCHANGED <<archVars, sideVars, fun, qns, qtext, low, high, middle, left, right,
                   mid, outcome, retval>>

\* ZIMServer, route "/<path:url>": url up to the call of findByUrl.
url(path) ==
    /\ pc = "idle" /\ route = "none"
    /\ route' = "url"
    /\ findByUrl_enter(url_split(path)[1], url_split(path)[2])
    /\ UNCHANGED <<dirent, response, served, urlIndexUsed>>

\* url: findByUrl has returned, or raised the IndexError that leaves the
\* handler (no try around it).
url_found ==
    /\ route = "url" /\ pc = "done"
    /\ IF outcome = "IndexError"
       THEN /\ response' = "IndexError" /\ pc' = "responded"
            /\ UNCHANGED <<dirent, urlIndexUsed>>
       ELSE /\ dirent' = retval /\ urlIndexUsed' = retval
            /\ pc' = "redirect_while"
            /\ UNCHANGED response
    /\ UNCHANGED <<archVars, sideVars, fun, qns, qtext, low, high, middle, left, right,
                   mid, outcome, retval, route, served>>

\* url: the test of `while dirent.kind == "redirect"`, and the blob read
\* after the loop.
url_while ==
    /\ route = "url" /\ pc = "redirect_while"
    /\ IF UrlDirent(dirent).kind = "redirect"
       THEN /\ pc' = "redirect_body"
            /\ UNCHANGED <<response, served>>
       ELSE /\ response' = ServeDirent(dirent).response
            /\ served' = ServeDirent(dirent).served
            /\ pc' = "responded"
    /\ UNCHANGED <<archVars, sideVars, fun, qns, qtext, low, high, middle, left, right,
                   mid, outcome, retval, route, dirent, urlIndexUsed>>

\* url: the loop body, index = dirent.redirect_index;
\* dirent = Dirent(self.zim.header.buf, self.zim.urlPtrList[index])
url_redirect ==
    /\ route = "url" /\ pc = "redirect_body"
    /\ dirent' = UrlDirent(dirent).redirect_index
    /\ urlIndexUsed' = UrlDirent(dirent).redirect_index
    /\ pc' = "redirect_while"
    /\ UNCHANGED <<archVars, sideVars, fun, qns, qtext, low, high, middle, left, right,
                   mid, outcome, retval, route, response, served>>

\* ZIMServer, route "/": the dirent at urlPtrList[mainPage], its cluster, its
\* blob.  BaseArray.__getitem__ turns the struct.error of a read past the end
\* of the file into IndexError.
ZIMServer_index ==
    /\ pc = "idle" /\ route = "none"
    /\ route' = "ZIMServer.index"
    /\ urlIndexUsed' = mainPage
    /\ IF mainPage < entryCount
       THEN /\ dirent' = mainPage
            /\ response' = ServeDirent(mainPage).response
            /\ served' = ServeDirent(mainPage).served
       ELSE /\ response' = "IndexError"
            /\ UNCHANGED <<dirent, served>>
    /\ pc' = "responded"
    /\ UNCHANGED <<archVars, sideVars, fun, qns, qtext, low, high, middle, left, right,
                   mid, outcome, retval>>

\* The url of the i-th entry of a served archive: "a", "aa", "aaa", ...
RouteUrl(i) == [j \in 1..i |-> 97]

\* The archives the routes serve: entry i is "A/" + RouteUrl(i), a content
\* dirent (blob i - 1 of cluster 0) or a redirect to any entry, itself
\* included; the header names any entry, or no entry, as the main page.
RouteEntries ==
    UNION { { s \in [1..n -> UNION { {ContentDirent(<<65>>, u, <<>>)} \cup
                                     {RedirectDirent(<<65>>, u, <<>>, t) :
                                        t \in 0..(n - 1)}
                                     : u \in {RouteUrl(k) : k \in 1..n} }] :
                \A i \in 1..n : s[i].url = RouteUrl(i) }
            : n \in 0..MaxEntries }

\* Entry i of a served archive holds blob i - 1.
WithBlobNumbers(es) ==
    [i \in 1..Len(es) |->
        IF es[i].kind = "content" THEN [es[i] EXCEPT !.blobNumber = i - 1]
        ELSE es[i]]

\* The request paths: "a", "aa", "b", "A/a", "A/aa", "A/aaa", "-/a", "a/b".
PathSet ==
    {<<97>>, <<97, 97>>, <<98>>, <<65, Slash, 97>>, <<65, Slash, 97, 97>>,
     <<65, Slash, 97, 97, 97>>, <<45, Slash, 97>>, <<97, Slash, 98>>}

RouteInit ==
    /\ \E es \in RouteEntries : entries = WithBlobNumbers(es)
    /\ titlePtrList = [i \in 1..Len(entries) |-> i - 1]
    /\ mainPage \in (0..(Len(entries) - 1)) \cup {AbsentMainPage}
    /\ fun = "none" /\ pc = "idle" /\ qns = <<>> /\ qtext = <<>>
    /\ low = 0 /\ high = 0 /\ middle = 0
    /\ left = 0 /\ right = 0 /\ mid = 0
    /\ outcome = "none" /\ retval = 0
    /\ route = "none" /\ dirent = 0 /\ response = "none" /\ served = -1
    /\ urlIndexUsed = -1
    /\ SideInit

RouteNext ==
    \/ \E path \in PathSet : get_page(path)
    \/ find_by_url_while
    \/ find_by_url_body
    \/ get_page_found
    \/ get_page_while
    \/ get_page_redirect
    \/ WikiServer_index
    \/ \E path \in PathSet : url(path)
    \/ bisect_while
    \/ bisect_body
    \/ url_found
    \/ url_while
    \/ url_redirect
    \/ ZIMServer_index

\* The routes on every served archive of at most MaxEntries entries.
RouteSpec == RouteInit /\ [][RouteNext]_vars

\* A handler, once entered, keeps running.
RouteFairSpec == RouteSpec /\ WF_vars(RouteNext)

(***************************************************************************)
(* The enumeration pass: create_and_populate_db (src/zimpy.py) and         *)
(* WikiServer.initialize_db (src/zimpy/server.py).  The table is rows; a   *)
(* pass is made only when the table is empty.                              *)
(***************************************************************************)
\* The largest entryCount of the archives the pass runs on.
MaxEnumEntries == 11

\* create_and_populate_db up to the loop: CREATE TABLE, SELECT COUNT(*), the
\* early return when the table is populated, batch = [].
create_and_populate_db(size) ==
    /\ epc = "idle"
    /\ efun' = "create_and_populate_db"
    /\ batch_size' = size
    /\ IF Len(rows) > 0
       THEN epc' = "skipped" /\ UNCHANGED <<loop_i, batch>>
       ELSE epc' = "for" /\ loop_i' = 0 /\ batch' = <<>>
    /\ UNCHANGED <<archVars, lookVars, routeVars, byteVars, clusterVars,
                   visited, rows>>

\* The divisor of the progress test `i % (zim.header.entryCount // 10) == 0`.
progress_step == entryCount \div 10

\* create_and_populate_db: one pass of `for i in range(entryCount)`, or the
\* code after the loop.  A zero divisor in the progress test raises
\* ZeroDivisionError; leaving the `with` block that way rolls the table back.
create_and_populate_db_for ==
    /\ efun = "create_and_populate_db" /\ epc = "for"
    /\ IF loop_i < entryCount
       THEN IF progress_step = 0
            THEN /\ epc' = "ZeroDivisionError"
                 /\ rows' = <<>>
                 /\ UNCHANGED <<loop_i, visited, batch>>
            ELSE /\ visited' = Append(visited, loop_i)
                 /\ LET e == UrlDirent(loop_i)
                        row == <<TitleOrUrl(e), e.url, e.namespace>>
                    IN IF e.namespace = <<65>>
                       THEN IF Len(batch) + 1 = batch_size
                            THEN /\ rows' = rows \o Append(batch, row)
                                 /\ batch' = <<>>
                            ELSE /\ batch' = Append(batch, row)
                                 /\ UNCHANGED rows
                       ELSE UNCHANGED <<batch, rows>>
                 /\ loop_i' = loop_i + 1
                 /\ UNCHANGED epc
       ELSE /\ rows' = rows \o batch
            /\ epc' = "done"
            /\ UNCHANGED <<loop_i, visited, batch>>
    /\ UNCHANGED <<archVars, lookVars, routeVars, byteVars, clusterVars,
                   efun, batch_size>>

\* initialize_db up to the loop: CREATE TABLE, SELECT COUNT(*), the early
\* return when the table is populated.
initialize_db ==
    /\ epc = "idle"
    /\ efun' = "initialize_db"
    /\ IF Len(rows) > 0
       THEN epc' = "skipped" /\ UNCHANGED loop_i
       ELSE epc' = "for" /\ loop_i' = 0
    /\ UNCHANGED <<archVars, lookVars, routeVars, byteVars, clusterVars,
                   visited, batch, rows, batch_size>>

\* initialize_db: one pass of `for i in tqdm.trange(self.h.articleCount)`,
\* or the commit after the loop.
initialize_db_for ==
    /\ efun = "initialize_db" /\ epc = "for"
    /\ IF loop_i < entryCount
       THEN /\ visited' = Append(visited, loop_i)
            /\ LET e == UrlDirent(loop_i) IN
               IF e.kind = "content" /\ e.namespace = <<65>> /\ e.title # <<>>
               THEN rows' = Append(rows, <<e.title, e.url>>)
               ELSE UNCHANGED rows
            /\ loop_i' = loop_i + 1
            /\ UNCHANGED epc
       ELSE /\ epc' = "done"
            /\ UNCHANGED <<loop_i, visited, rows>>
    /\ UNCHANGED <<archVars, lookVars, routeVars, byteVars, clusterVars,
                   efun, batch, batch_size>>

\* The archives the pass runs on: n entries of which the first k are in
\* namespace "-" and the others in "A"; every second one has a title, every
\* third one is a redirect.
EnumEntries(n, k) ==
    [j \in 1..n |->
        LET ns == IF j <= k THEN <<45>> ELSE <<65>>
            title == IF j % 2 = 0 THEN <<98>> ELSE <<>>
        IN IF j % 3 = 0 THEN RedirectDirent(ns, RouteUrl(j), title, 0)
           ELSE ContentDirent(ns, RouteUrl(j), title)]

EnumInit ==
    /\ \E n \in 0..MaxEnumEntries : \E k \in 0..n : entries = EnumEntries(n, k)
    /\ titlePtrList = [j \in 1..Len(entries) |-> j - 1]
    /\ mainPage = 0
    /\ fun = "none" /\ pc = "idle" /\ qns = <<>> /\ qtext = <<>>
    /\ low = 0 /\ high = 0 /\ middle = 0
    /\ left = 0 /\ right = 0 /\ mid = 0
    /\ outcome = "none" /\ retval = 0
    /\ route = "none" /\ dirent = 0 /\ response = "none" /\ served = -1
    /\ urlIndexUsed = -1
    /\ efun = "none" /\ epc = "idle" /\ loop_i = 0 /\ visited = <<>>
    /\ batch = <<>> /\ batch_size = 0
    /\ rows \in {<<>>, << <<(<<98>>), (<<97>>)>> >>}
    /\ buf = <<>> /\ offset = 0 /\ content = <<>> /\ op = "none" /\ arg = 0 /\ result = [kind |-> "none"]
    /\ module = "none" /\ info = 0 /\ stream = <<>> /\ cache = 0
    /\ instances = <<>> /\ tpc = <<>> /\ cl = <<>> /\ dec = <<>>
    /\ got = <<>> /\ decompressions = 0

\* The batch sizes asked for: a small one, and the default of 1000.
BatchSizes == {2, 1000}

EnumNext ==
    \/ \E size \in BatchSizes : create_and_populate_db(size)
    \/ create_and_populate_db_for
    \/ initialize_db
    \/ initialize_db_for

\* The enumeration pass on archives of at most MaxEnumEntries entries.
EnumSpec == EnumInit /\ [][EnumNext]_vars

(***************************************************************************)
(* Bytes.  A bytes object (and the mapped file) is a sequence of numbers   *)
(* in 0..255; position k of Python is element k + 1 here.                  *)
(***************************************************************************)
Min(a, b) == IF a < b THEN a ELSE b
Max(a, b) == IF a > b THEN a ELSE b

\* A slice bound as Python reads it on a sequence of length n.
SliceBound(x, n) == IF x < 0 THEN Max(x + n, 0) ELSE Min(x, n)

\* b[from:to]
Slice(b, from, to) ==
    SubSeq(b, SliceBound(from, Len(b)) + 1, SliceBound(to, Len(b)))

\* b.find(sub, start) for start >= 0: the first place at or after start where
\* sub begins, or -1.
Find(b, sub, start) ==
    LET hits == { k \in start..(Len(b) - Len(sub)) :
                    \A j \in 1..Len(sub) : b[k + j] = sub[j] }
    IN IF hits = {} THEN -1
       ELSE CHOOSE k \in hits : \A h \in hits : k <= h

\* b.count(bytes([byte]), start, end) for start, end >= 0
Count(b, byte, start, end) ==
    Cardinality({ k \in start..(Min(end, Len(b)) - 1) : b[k + 1] = byte })

\* str.encode(): UTF-8, for code points below 2048.
RECURSIVE encode(_)
encode(str) ==
    IF str = <<>> THEN <<>>
    ELSE LET c == Head(str) IN
         (IF c < 128 THEN <<c>>
          ELSE <<192 + (c \div 64), 128 + (c % 64)>>) \o encode(Tail(str))

\* bytes.decode(): UTF-8, of bytes that encode produced.
RECURSIVE decode(_)
decode(b) ==
    IF b = <<>> THEN <<>>
    ELSE IF Head(b) < 128 THEN <<Head(b)>> \o decode(Tail(b))
    ELSE <<(Head(b) - 192) * 64 + (b[2] - 128)>> \o decode(Tail(Tail(b)))

\* A number too large to be a place in any buffer of the model: what an
\* unpacked integer of 2^31 or more is written as (slices clamp it to the
\* length of the buffer, as they clamp any number past the end).
Huge == 2147483647

\* struct.Struct("<I" / "<Q").unpack_from(b, at)[0] for size = 4 / 8: the
\* little-endian unsigned integer, or struct.error when the buffer ends
\* before at + size.
RECURSIVE LittleEndian(_)
LittleEndian(bs) ==
    IF bs = <<>> THEN 0
    ELSE IF LittleEndian(Tail(bs)) >= 8388608 THEN Huge
    ELSE Head(bs) + 256 * LittleEndian(Tail(bs))

unpack_from(b, size, at) ==
    IF at < 0 \/ at + size > Len(b) THEN [kind |-> "struct.error"]
    ELSE [kind |-> "return", value |-> LittleEndian(SubSeq(b, at + 1, at + size))]

\* An integer as size little-endian bytes.
RECURSIVE pack(_, _)
pack(n, size) ==
    IF size = 0 THEN <<>> ELSE <<n % 256>> \o pack(n \div 256, size - 1)

(***************************************************************************)
(* The mimetype list: MimeTypeList of src/structs.py, which scans the      *)
(* buffer on every access, and MimetypeList of src/zimpy/structs.py, a     *)
(* Python list filled once.                                                *)
(***************************************************************************)
ZERO == <<0>>

\* MimeTypeList.__getitem__: the offset after `for i in range(index)` has run
\* `todo` more passes, or -1 once a pass has met the empty string.
RECURSIVE getitem_skip(_, _)
getitem_skip(off, todo) ==
    IF todo = 0 THEN off
    ELSE LET end_off == Find(buf, ZERO, off) IN
         IF end_off = off THEN -1
         ELSE getitem_skip(end_off + 1, todo - 1)

\* MimeTypeList.__getitem__(index)
MimeTypeList_getitem(index) ==
    LET off == getitem_skip(offset, index) IN
    IF off = -1 THEN [kind |-> "IndexError"]
    ELSE LET end_off == Find(buf, ZERO, off) IN
         IF end_off = off THEN [kind |-> "IndexError"]
         ELSE [kind |-> "return", value |-> decode(Slice(buf, off, end_off))]

\* MimeTypeList.__len__()
MimeTypeList_len ==
    LET end_buf == Find(buf, <<0, 0>>, offset) IN
    [kind |-> "return", value |-> Count(buf, 0, offset, end_buf + 1)]

\* read_cstring(buf, offset) of src/zimpy/structs.py: <<string, next offset>>
read_cstring(b, off) ==
    LET end_off == Find(b, ZERO, off) IN
    <<decode(Slice(b, off, end_off)), end_off + 1>>

\* MimetypeList.__init__: the list read from the buffer.
RECURSIVE MimetypeList_init(_)
MimetypeList_init(off) ==
    LET r == read_cstring(buf, off) IN
    IF r[1] = <<>> THEN <<>>
    ELSE <<r[1]>> \o MimetypeList_init(r[2])

\* list.__getitem__(index) for index >= 0
list_getitem(list, index) ==
    IF index >= Len(list) THEN [kind |-> "IndexError"]
    ELSE [kind |-> "return", value |-> list[index + 1]]

\* The largest number of mimetypes in a list.
MaxMimes == 2

\* The mimetypes the lists are built from ("a", "e-acute", "ab") and the bytes
\* that may precede and follow the list in the file.
MimeSet == {<<97>>, <<233>>, <<97, 98>>}
BeforeSet == {<<>>, <<0>>, <<97>>}
AfterSet == {<<>>, <<0>>, <<97>>, <<0, 0>>, <<97, 0>>, <<97, 0, 0>>}

\* A list of strings as the file holds it: each string and a NUL, then the
\* empty string and its NUL.
RECURSIVE MimeBytes(_)
MimeBytes(strs) ==
    IF strs = <<>> THEN ZERO
    ELSE encode(Head(strs)) \o ZERO \o MimeBytes(Tail(strs))

\* len(mimes) on either generation of the list.
mime_len(which) ==
    /\ op = "none"
    /\ op' = which
    /\ result' = IF which = "MimeTypeList.__len__" THEN MimeTypeList_len
                 ELSE [kind |-> "return", value |-> Len(MimetypeList_init(offset))]
    /\ UNCHANGED <<archVars, lookVars, routeVars, enumVars, clusterVars,
                   buf, offset, content, arg>>

\* mimes[index] on either generation of the list.
mime_getitem(which, index) ==
    /\ op = "none"
    /\ op' = which /\ arg' = index
    /\ result' = IF which = "MimeTypeList.__getitem__" THEN MimeTypeList_getitem(index)
                 ELSE list_getitem(MimetypeList_init(offset), index)
    /\ UNCHANGED <<archVars, lookVars, routeVars, enumVars, clusterVars,
                   buf, offset, content>>

MimeInit ==
    /\ entries = <<>> /\ titlePtrList = <<>> /\ mainPage = 0
    /\ fun = "none" /\ pc = "idle" /\ qns = <<>> /\ qtext = <<>>
    /\ low = 0 /\ high = 0 /\ middle = 0
    /\ left = 0 /\ right = 0 /\ mid = 0
    /\ outcome = "none" /\ retval = 0
    /\ route = "none" /\ dirent = 0 /\ response = "none" /\ served = -1
    /\ urlIndexUsed = -1
    /\ efun = "none" /\ epc = "idle" /\ loop_i = 0 /\ visited = <<>>
    /\ batch = <<>> /\ rows = <<>> /\ batch_size = 0
    /\ content \in UNION { [1..n -> MimeSet] : n \in 0..MaxMimes }
    /\ \E before \in BeforeSet, after \in AfterSet :
          /\ buf = before \o MimeBytes(content) \o after
          /\ offset = Len(before)
    /\ op = "none" /\ arg = 0 /\ result = [kind |-> "none"]
    /\ module = "none" /\ info = 0 /\ stream = <<>> /\ cache = 0
    /\ instances = <<>> /\ tpc = <<>> /\ cl = <<>> /\ dec = <<>>
    /\ got = <<>> /\ decompressions = 0

MimeNext ==
    \/ \E which \in {"MimeTypeList.__len__", "MimetypeList.__len__"} :
          mime_len(which)
    \/ \E which \in {"MimeTypeList.__getitem__", "MimetypeList.__getitem__"} :
          \E index \in 0..(MaxMimes + 1) : mime_getitem(which, index)

\* The mimetype lists of at most MaxMimes strings, in any surroundings.
MimeSpec == MimeInit /\ [][MimeNext]_vars

(***************************************************************************)
(* The blobs of an uncompressed cluster: Cluster of src/zimpy/structs.py   *)
(* and Cluster of src/structs.py.  For such a cluster the property data is *)
(* (self.buf, self.offset + 1): the offset table and the blobs are read    *)
(* from the mapped file itself.                                            *)
(***************************************************************************)
\* a + b without leaving the numbers of the model.
Add(a, b) == IF a >= Huge - b THEN Huge ELSE a + b

\* Cluster.info: the byte at self.offset.
Cluster_info == buf[offset + 1]

\* Cluster.compression: self.info & 0b00001111
compression(byte) == byte % 16

\* Cluster.extended: bool(self.info & 0b00010000)
extended(byte) == (byte \div 16) % 2 = 1

\* ctype.size of the offset table: c_uint64 if extended, else c_uint32.
ctype_size == IF extended(Cluster_info) THEN 8 ELSE 4

\* src/zimpy/structs.py, BaseList.__getitem__ on self.offsets:
\* unpack_from(self.buf, self.offset + index * self.ctype.size)
offsets_getitem(index) ==
    unpack_from(buf, ctype_size, offset + 1 + index * ctype_size)

\* src/zimpy/structs.py, Cluster.get_blob_data(index)
get_blob_data(index) ==
    LET from == offsets_getitem(index)
        to == offsets_getitem(index + 1) IN
    IF from.kind # "return" THEN from
    ELSE IF to.kind # "return" THEN to
    ELSE [kind |-> "return",
          value |-> Slice(buf, Add(offset + 1, from.value),
                               Add(offset + 1, to.value))]

\* src/structs.py, BaseArray.__getitem__ on self.offsetArray: struct.error
\* becomes IndexError.
offsetArray_getitem(index) ==
    LET r == unpack_from(buf, ctype_size, offset + 1 + index * ctype_size) IN
    IF r.kind = "struct.error" THEN [kind |-> "IndexError"] ELSE r

\* src/structs.py, Cluster.nb_offsets
nb_offsets ==
    LET first_offset == offsetArray_getitem(0) IN
    IF first_offset.kind # "return" THEN first_offset
    ELSE [kind |-> "return", value |-> first_offset.value \div ctype_size]

\* src/structs.py, Cluster.get_blob_offset(index)
get_blob_offset(index) ==
    IF nb_offsets.kind # "return" THEN nb_offsets
    ELSE IF index >= nb_offsets.value THEN [kind |-> "IndexError"]
    ELSE offsetArray_getitem(index)

\* src/structs.py, Cluster.get_blob_data(index)
structs_get_blob_data(index) ==
    LET blob_offset == get_blob_offset(index)
        end_offset == get_blob_offset(index + 1) IN
    IF blob_offset.kind # "return" THEN blob_offset
    ELSE IF end_offset.kind # "return" THEN end_offset
    ELSE [kind |-> "return",
          value |-> Slice(buf, Add(offset + 1, blob_offset.value),
                               Add(offset + 1, end_offset.value))]

\* The largest number of blobs in a cluster.
MaxBlobs == 2

\* The blobs the clusters are built from, the info bytes of an uncompressed
\* cluster (compression 0 or 1, extended or not) and the bytes that may
\* precede and follow the cluster in the file.
BlobSet == {<<>>, <<7>>, <<14, 0, 0, 0>>}
RawInfoSet == {0, 1, 16, 17}
ClusterBeforeSet == {<<>>, <<5>>}
ClusterAfterSet == {<<>>, <<9, 9, 9, 9>>}

RECURSIVE Concat(_)
Concat(seqs) == IF seqs = <<>> THEN <<>> ELSE Head(seqs) \o Concat(Tail(seqs))

\* The offset table of a cluster of blobs: N + 1 entries of `size` bytes, the
\* first being the length of the table itself.
RECURSIVE OffsetTable(_, _, _)
OffsetTable(blobs, at, size) ==
    pack(at, size) \o
    (IF blobs = <<>> THEN <<>>
     ELSE OffsetTable(Tail(blobs), at + Len(Head(blobs)), size))

\* An uncompressed cluster as the file holds it.
ClusterBytes(byte, blobs) ==
    LET size == IF extended(byte) THEN 8 ELSE 4 IN
    <<byte>> \o OffsetTable(blobs, (Len(blobs) + 1) * size, size) \o Concat(blobs)

\* cluster.get_blob_data(index) on either generation of Cluster.
blob_read(which, index) ==
    /\ op = "none"
    /\ op' = which /\ arg' = index
    /\ result' = IF which = "zimpy.structs.get_blob_data" THEN get_blob_data(index)
                 ELSE structs_get_blob_data(index)
    /\ UNCHANGED <<archVars, lookVars, routeVars, enumVars, clusterVars,
                   buf, offset, content>>

BlobInit ==
    /\ entries = <<>> /\ titlePtrList = <<>> /\ mainPage = 0
    /\ fun = "none" /\ pc = "idle" /\ qns = <<>> /\ qtext = <<>>
    /\ low = 0 /\ high = 0 /\ middle = 0
    /\ left = 0 /\ right = 0 /\ mid = 0
    /\ outcome = "none" /\ retval = 0
    /\ route = "none" /\ dirent = 0 /\ response = "none" /\ served = -1
    /\ urlIndexUsed = -1
    /\ efun = "none" /\ epc = "idle" /\ loop_i = 0 /\ visited = <<>>
    /\ batch = <<>> /\ rows = <<>> /\ batch_size = 0
    /\ content \in UNION { [1..n -> BlobSet] : n \in 0..MaxBlobs }
    /\ \E byte \in RawInfoSet, before \in ClusterBeforeSet,
          after \in ClusterAfterSet :
          /\ buf = before \o ClusterBytes(byte, content) \o after
          /\ offset = Len(before)
    /\ op = "none" /\ arg = 0 /\ result = [kind |-> "none"]
    /\ module = "none" /\ info = 0 /\ stream = <<>> /\ cache = 0
    /\ instances = <<>> /\ tpc = <<>> /\ cl = <<>> /\ dec = <<>>
    /\ got = <<>> /\ decompressions = 0

BlobNext ==
    \E which \in {"zimpy.structs.get_blob_data", "structs.get_blob_data"} :
        \E index \in 0..(MaxBlobs + 1) : blob_read(which, index)

\* The uncompressed clusters of at most MaxBlobs blobs, in any surroundings.
BlobSpec == BlobInit /\ [][BlobNext]_vars

(***************************************************************************)
(* The clusters under concurrent requests.                                 *)
(*                                                                         *)
(* Every request thread serves a dirent of the same cluster: it gets a     *)
(* Cluster object, then get_blob_data reads the property data twice (once  *)
(* itself, once through the offset table it builds).                       *)
(*   src/zimpy/structs.py: the class is wrapped in functools.lru_cache,    *)
(*     which does not hold callers of the same key apart: two calls that   *)
(*     both miss both run __init__, and the later one's object is returned *)
(*     to its caller without entering the cache.  data runs under the      *)
(*     object's lock.                                                      *)
(*   src/structs.py: ZIMServer makes a new Cluster for every request;      *)
(*     there is no cache and no lock.                                      *)
(*                                                                         *)
(* The body of a compressed cluster is read 1024 bytes at a time.  stream  *)
(* says what the decoder does with each such chunk: "data" (output, more   *)
(* input needed), "end" (output, the stream is complete), "corrupt" (the   *)
(* decoder raises).  Past the end of the file every slice is empty, and    *)
(* both decoders answer an empty chunk with empty output.  The output of   *)
(* chunk k is written k, so a payload is a sequence of chunk numbers.      *)
(***************************************************************************)
\* The number of concurrent request threads.
NumThreads == 2

\* The largest number of chunks in the file after the cluster's info byte.
MaxChunks == 2

Threads == 1..NumThreads

LZMA2 == 4
ZSTD == 5

\* buf[offset : offset + 1024] for the chunk at place `pos` (from 0).
ChunkAt(pos) == IF pos < Len(stream) THEN stream[pos + 1] ELSE "empty"

\* offset += 1024; past the end of the file nothing distinguishes one offset
\* from the next.
NextPos(pos) == Min(pos + 1, Len(stream))

\* The Cluster object of thread t.
Obj(t) == instances[cl[t]]

\* Leaving `with self._lock` (src/zimpy/structs.py); src/structs.py has no lock.
Unlocked(obj) == [obj EXCEPT !.lock = 0]

\* render_page / ZIMServer.url: the request reaches `Cluster(buf, offset)`.
request(t) ==
    /\ tpc[t] = "idle"
    /\ tpc' = [tpc EXCEPT ![t] =
                  IF module = "zimpy.structs" THEN "lru_cache" ELSE "__init__"]
    /\ UNCHANGED <<archVars, lookVars, routeVars, enumVars, byteVars,
                   module, info, stream, cache, instances, cl, dec, got,
                   decompressions>>

\* functools.lru_cache: the lookup of the key (buf, offset).
lru_cache_lookup(t) ==
    /\ tpc[t] = "lru_cache"
    /\ IF cache # 0
       THEN /\ cl' = [cl EXCEPT ![t] = cache]
            /\ tpc' = [tpc EXCEPT ![t] = "data"]
       ELSE /\ tpc' = [tpc EXCEPT ![t] = "__init__"]
            /\ UNCHANGED cl
    /\ UNCHANGED <<archVars, lookVars, routeVars, enumVars, byteVars,
                   module, info, stream, cache, instances, dec, got,
                   decompressions>>

\* Cluster.__init__: a new object with _data = None and its own lock.
Cluster_init(t) ==
    /\ tpc[t] = "__init__"
    /\ instances' = Append(instances,
                           [has_data |-> FALSE, _data |-> <<>>,
                            has_offsets |-> FALSE, lock |-> 0])
    /\ cl' = [cl EXCEPT ![t] = Len(instances) + 1]
    /\ tpc' = [tpc EXCEPT ![t] =
                  IF module = "zimpy.structs" THEN "lru_cache_store" ELSE "data"]
    /\ UNCHANGED <<archVars, lookVars, routeVars, enumVars, byteVars,
                   module, info, stream, cache, dec, got, decompressions>>

\* The object lru_cache keeps for the key after a call that missed: the new
\* one, unless the key entered the cache while __init__ ran.
lru_cache_kept(mine) == IF cache = 0 THEN mine ELSE cache

\* functools.lru_cache: after the wrapped call, the result is stored.
lru_cache_store(t) ==
    /\ tpc[t] = "lru_cache_store"
    /\ cache' = lru_cache_kept(cl[t])
    /\ tpc' = [tpc EXCEPT ![t] = "data"]
    /\ UNCHANGED <<archVars, lookVars, routeVars, enumVars, byteVars,
                   module, info, stream, instances, cl, dec, got,
                   decompressions>>

\* Cluster.data: `with self._lock` (src/zimpy/structs.py) waits for the lock
\* of the object; src/structs.py enters at once.
data_enter(t) ==
    /\ tpc[t] = "data"
    /\ IF module = "zimpy.structs"
       THEN /\ Obj(t).lock = 0
            /\ instances' = [instances EXCEPT ![cl[t]].lock = t]
       ELSE UNCHANGED instances
    /\ tpc' = [tpc EXCEPT ![t] = "data_check"]
    /\ UNCHANGED <<archVars, lookVars, routeVars, enumVars, byteVars,
                   module, info, stream, cache, cl, dec, got, decompressions>>

\* Where get_blob_data goes on when data has returned: after the first read
\* to the offset table, after the second to the slice.
after_data(t) == IF dec[t].call = 1 THEN "offsets" ELSE "slice"

\* Cluster.data: the cached payload, a new decompressor, or (the else
\* branch, for every other compression code) the mapped file itself.
data_check(t) ==
    /\ tpc[t] = "data_check"
    /\ IF Obj(t).has_data
       THEN /\ got' = [got EXCEPT ![t] = [kind |-> "payload", data |-> Obj(t)._data]]
            /\ instances' = [instances EXCEPT ![cl[t]] = Unlocked(@)]
            /\ tpc' = [tpc EXCEPT ![t] = after_data(t)]
            /\ UNCHANGED <<dec, decompressions>>
       ELSE IF compression(info) \in {LZMA2, ZSTD}
       THEN /\ instances' = [instances EXCEPT ![cl[t]].has_data = TRUE,
                                              ![cl[t]]._data = <<>>]
            /\ dec' = [dec EXCEPT ![t].pos = 0, ![t].eof = FALSE]
            /\ decompressions' = decompressions + 1
            /\ tpc' = [tpc EXCEPT ![t] =
                          IF compression(info) = LZMA2 THEN "lzma_while"
                          ELSE "zstd_while"]
            /\ UNCHANGED got
       ELSE /\ got' = [got EXCEPT ![t] = [kind |-> "raw", data |-> <<>>]]
            /\ instances' = [instances EXCEPT ![cl[t]] = Unlocked(@)]
            /\ tpc' = [tpc EXCEPT ![t] = after_data(t)]
            /\ UNCHANGED <<dec, decompressions>>
    /\ UNCHANGED <<archVars, lookVars, routeVars, enumVars, byteVars,
                   module, info, stream, cache, cl>>

\* Cluster.data, LZMA2: `while decompressor.needs_input`, and the return of
\* self._data after the loop.
lzma_while(t) ==
    /\ tpc[t] = "lzma_while"
    /\ IF ~ dec[t].eof
       THEN /\ tpc' = [tpc EXCEPT ![t] = "lzma_body"]
            /\ UNCHANGED <<got, instances>>
       ELSE /\ got' = [got EXCEPT ![t] = [kind |-> "payload", data |-> Obj(t)._data]]
            /\ instances' = [instances EXCEPT ![cl[t]] = Unlocked(@)]
            /\ tpc' = [tpc EXCEPT ![t] = after_data(t)]
    /\ UNCHANGED <<archVars, lookVars, routeVars, enumVars, byteVars,
                   module, info, stream, cache, cl, dec, decompressions>>

\* Cluster.data, LZMA2: one pass of the loop body.  LZMAError leaves data
\* (and the lock) with self._data as far as it was filled.
lzma_body(t) ==
    /\ tpc[t] = "lzma_body"
    /\ LET chunk == ChunkAt(dec[t].pos) IN
       IF chunk = "corrupt"
       THEN /\ got' = [got EXCEPT ![t] = [kind |-> "LZMAError", data |-> <<>>]]
            /\ instances' = [instances EXCEPT ![cl[t]] = Unlocked(@)]
            /\ tpc' = [tpc EXCEPT ![t] = "done"]
            /\ UNCHANGED dec
       ELSE /\ instances' = [instances EXCEPT ![cl[t]]._data =
                                IF chunk = "empty" THEN @
                                ELSE Append(@, dec[t].pos + 1)]
            /\ dec' = [dec EXCEPT ![t].pos = NextPos(@),
                                  ![t].eof = (chunk = "end")]
            /\ tpc' = [tpc EXCEPT ![t] = "lzma_while"]
            /\ UNCHANGED got
    /\ UNCHANGED <<archVars, lookVars, routeVars, enumVars, byteVars,
                   module, info, stream, cache, cl, decompressions>>

\* Cluster.data, Zstandard: `while True`.
zstd_while(t) ==
    /\ tpc[t] = "zstd_while"
    /\ tpc' = [tpc EXCEPT ![t] = "zstd_try"]
    /\ UNCHANGED <<archVars, lookVars, routeVars, enumVars, byteVars,
                   module, info, stream, cache, instances, cl, dec, got,
                   decompressions>>

\* Cluster.data, Zstandard: one pass of the try block.  The decompressobj
\* raises ZstdError on corrupt input and on any call after its frame has
\* ended; the except clause breaks, and self._data is returned.
zstd_try(t) ==
    /\ tpc[t] = "zstd_try"
    /\ LET chunk == ChunkAt(dec[t].pos) IN
       IF dec[t].eof \/ chunk = "corrupt"
       THEN /\ got' = [got EXCEPT ![t] = [kind |-> "payload", data |-> Obj(t)._data]]
            /\ instances' = [instances EXCEPT ![cl[t]] = Unlocked(@)]
            /\ tpc' = [tpc EXCEPT ![t] = after_data(t)]
            /\ UNCHANGED dec
       ELSE /\ instances' = [instances EXCEPT ![cl[t]]._data =
                                IF chunk = "empty" THEN @
                                ELSE Append(@, dec[t].pos + 1)]
            /\ dec' = [dec EXCEPT ![t].pos = NextPos(@),
                                  ![t].eof = (chunk = "end")]
            /\ tpc' = [tpc EXCEPT ![t] = "zstd_while"]
            /\ UNCHANGED got
    /\ UNCHANGED <<archVars, lookVars, routeVars, enumVars, byteVars,
                   module, info, stream, cache, cl, decompressions>>

\* get_blob_data after its first read of data: the offset table
\* (Cluster.offsets / Cluster.offsetArray) is built from a second read of
\* data, unless the object already has it.  (src/structs.py makes the same
\* two reads in the other order: the table first, the data last.)
offsets(t) ==
    /\ tpc[t] = "offsets"
    /\ IF Obj(t).has_offsets
       THEN /\ tpc' = [tpc EXCEPT ![t] = "slice"]
            /\ UNCHANGED dec
       ELSE /\ tpc' = [tpc EXCEPT ![t] = "data"]
            /\ dec' = [dec EXCEPT ![t].call = 2]
    /\ UNCHANGED <<archVars, lookVars, routeVars, enumVars, byteVars,
                   module, info, stream, cache, instances, cl, got,
                   decompressions>>

\* get_blob_data: self._offsets is set and the blob is cut out of the data.
slice(t) ==
    /\ tpc[t] = "slice"
    /\ instances' = [instances EXCEPT ![cl[t]].has_offsets = TRUE]
    /\ tpc' = [tpc EXCEPT ![t] = "done"]
    /\ UNCHANGED <<archVars, lookVars, routeVars, enumVars, byteVars,
                   module, info, stream, cache, cl, dec, got, decompressions>>

\* The info bytes of the clusters: compression 0, 1, 2, 4, 5 and 15, and the
\* extended forms of 4 and 5.
InfoSet == {0, 1, 2, 4, 5, 15, 20, 21}

ChunkKinds == {"data", "end", "corrupt"}

ClusterInit ==
    /\ entries = <<>> /\ titlePtrList = <<>> /\ mainPage = 0
    /\ fun = "none" /\ pc = "idle" /\ qns = <<>> /\ qtext = <<>>
    /\ low = 0 /\ high = 0 /\ middle = 0
    /\ left = 0 /\ right = 0 /\ mid = 0
    /\ outcome = "none" /\ retval = 0
    /\ route = "none" /\ dirent = 0 /\ response = "none" /\ served = -1
    /\ urlIndexUsed = -1
    /\ efun = "none" /\ epc = "idle" /\ loop_i = 0 /\ visited = <<>>
    /\ batch = <<>> /\ rows = <<>> /\ batch_size = 0
    /\ buf = <<>> /\ offset = 0 /\ content = <<>>
    /\ op = "none" /\ arg = 0 /\ result = [kind |-> "none"]
    /\ module \in {"zimpy.structs", "structs"}
    /\ info \in InfoSet
    /\ stream \in UNION { [1..n -> ChunkKinds] : n \in 0..MaxChunks }
    /\ cache = 0
    /\ instances = <<>>
    /\ tpc = [t \in Threads |-> "idle"]
    /\ cl = [t \in Threads |-> 0]
    /\ dec = [t \in Threads |-> [pos |-> 0, eof |-> FALSE, call |-> 1]]
    /\ got = [t \in Threads |-> [kind |-> "none", data |-> <<>>]]
    /\ decompressions = 0

ClusterNext ==
    \E t \in Threads :
        \/ request(t)
        \/ lru_cache_lookup(t)
        \/ Cluster_init(t)
        \/ lru_cache_store(t)
        \/ data_enter(t)
        \/ data_check(t)
        \/ lzma_while(t)
        \/ lzma_body(t)
        \/ zstd_while(t)
        \/ zstd_try(t)
        \/ offsets(t)
        \/ slice(t)

\* NumThreads concurrent requests for blobs of one cluster.
ClusterSpec == ClusterInit /\ [][ClusterNext]_vars

\* Every thread that can take a step eventually does.
ClusterFairSpec ==
    ClusterSpec /\ \A t \in Threads : WF_vars(
        request(t) \/ lru_cache_lookup(t) \/ Cluster_init(t)
        \/ lru_cache_store(t) \/ data_enter(t) \/ data_check(t)
        \/ lzma_while(t) \/ lzma_body(t) \/ zstd_while(t) \/ zstd_try(t)
        \/ offsets(t) \/ slice(t))

(***************************************************************************)
(* The strings of a dirent: url and title follow the fixed fields, each    *)
(* ended by a NUL.  Dirent of src/zimpy/structs.py reads them with         *)
(* read_cstring, Dirent of src/structs.py with its own find and slice.     *)
(***************************************************************************)
\* The fixed fields of a content dirent in namespace "A": mimetype,
\* parameter_len, namespace, revision, clusterNumber, blobNumber.
DirentFields ==
    pack(0, 2) \o pack(0, 1) \o <<65>> \o pack(0, 4) \o pack(0, 4) \o pack(0, 4)

\* self.csize: the size of the fixed fields.
csize == Len(DirentFields)

\* Dirent.url of src/zimpy/structs.py
Dirent_url(b, off) == read_cstring(b, off + csize)[1]

\* Dirent.title of src/zimpy/structs.py
Dirent_title(b, off) ==
    LET r == read_cstring(b, off + csize) IN read_cstring(b, r[2])[1]

\* Dirent.url of src/structs.py
structs_Dirent_url(b, off) ==
    LET o == off + csize
        end_off == Find(b, ZERO, o)
    IN  decode(Slice(b, o, end_off))

\* Dirent.title of src/structs.py
structs_Dirent_title(b, off) ==
    LET o == Find(b, ZERO, off + csize) + 1
        end_off == Find(b, ZERO, o)
    IN  decode(Slice(b, o, end_off))

\* dirent.url or dirent.title on either generation of Dirent.  Nothing in
\* either property raises: each returns a string.
dirent_read(which) ==
    /\ op = "none"
    /\ op' = which
    /\ result' = [kind |-> "return",
                  value |-> CASE which = "zimpy.structs.Dirent.url" ->
                                     Dirent_url(buf, offset)
                              [] which = "zimpy.structs.Dirent.title" ->
                                     Dirent_title(buf, offset)
                              [] which = "structs.Dirent.url" ->
                                     structs_Dirent_url(buf, offset)
                              [] which = "structs.Dirent.title" ->
                                     structs_Dirent_title(buf, offset)]
    /\ UNCHANGED <<archVars, lookVars, routeVars, enumVars, clusterVars,
                   buf, offset, content, arg>>

\* The urls and titles of the dirents ("", "a", "ab"), the bytes that may
\* precede the dirent in the file ("XY" and a NUL), and those that may
\* follow a dirent whose strings are both ended.
DirentStrSet == {<<>>, <<97>>, <<97, 98>>}
DirentBeforeSet == {<<>>, <<88, 89, 0>>}
DirentAfterSet == {<<>>, <<99, 0>>}

\* The strings of a dirent as the file holds them when it ends after `nuls`
\* of their two NULs: url alone (0), url, NUL, title (1), or both ended (2).
DirentStrings(d) ==
    IF d.nuls = 0 THEN encode(d.url)
    ELSE IF d.nuls = 1 THEN encode(d.url) \o ZERO \o encode(d.title)
    ELSE encode(d.url) \o ZERO \o encode(d.title) \o ZERO

DirentInit ==
    /\ entries = <<>> /\ titlePtrList = <<>> /\ mainPage = 0
    /\ fun = "none" /\ pc = "idle" /\ qns = <<>> /\ qtext = <<>>
    /\ low = 0 /\ high = 0 /\ middle = 0
    /\ left = 0 /\ right = 0 /\ mid = 0
    /\ outcome = "none" /\ retval = 0
    /\ route = "none" /\ dirent = 0 /\ response = "none" /\ served = -1
    /\ urlIndexUsed = -1
    /\ efun = "none" /\ epc = "idle" /\ loop_i = 0 /\ visited = <<>>
    /\ batch = <<>> /\ rows = <<>> /\ batch_size = 0
    /\ content \in [url : DirentStrSet, title : DirentStrSet, nuls : 0..2]
    /\ \E before \in DirentBeforeSet, after \in DirentAfterSet :
          /\ content.nuls < 2 => after = <<>>
          /\ buf = before \o DirentFields \o DirentStrings(content) \o after
          /\ offset = Len(before)
    /\ op = "none" /\ arg = 0 /\ result = [kind |-> "none"]
    /\ module = "none" /\ info = 0 /\ stream = <<>> /\ cache = 0
    /\ instances = <<>> /\ tpc = <<>> /\ cl = <<>> /\ dec = <<>>
    /\ got = <<>> /\ decompressions = 0

DirentNext ==
    \E which \in {"zimpy.structs.Dirent.url", "zimpy.structs.Dirent.title",
                  "structs.Dirent.url", "structs.Dirent.title"} :
        dirent_read(which)

\* The strings of a dirent, ended or cut short by the end of the file.
DirentSpec == DirentInit /\ [][DirentNext]_vars

(***************************************************************************)
(* Properties of the lookups.                                              *)
(***************************************************************************)
\* Some entry of the archive has exactly the (namespace, url) of the query.
UrlPresent ==
    \E i \in 0..(entryCount - 1) :
        UrlDirent(i).namespace = qns /\ UrlDirent(i).url = qtext

\* A URL lookup has ended as the contract says: with an index in
\* [0, entryCount) of a dirent equal to the query when one exists,
\* with IndexError (NotFound) when none does.
UrlLookupAnswered ==
    /\ pc = "done"
    /\ IF UrlPresent
       THEN /\ outcome = "return"
            /\ retval \in 0..(entryCount - 1)
            /\ UrlDirent(retval).namespace = qns
            /\ UrlDirent(retval).url = qtext
       ELSE outcome = "IndexError"

\* C1: on an archive sorted by (namespace, url), every URL lookup
\* (find_by_url and findByUrl) ends, returning the index of a dirent whose
\* (namespace, url) equals the query if there is one and failing with
\* IndexError (NotFound) if there is none.
C1_UrlLookupAnswers ==
    [](fun \in {"findByUrl", "find_by_url"} => <>UrlLookupAnswered)

\* The part of C1 the code keeps: a URL lookup that ends, ends as the
\* contract says.
C1_EndedLookupIsRight ==
    (pc = "done" /\ fun \in {"findByUrl", "find_by_url"}) => UrlLookupAnswered

\* WikiServer.find_by_url alone always ends.
C1_find_by_url_Answers ==
    [](fun = "find_by_url" => <>UrlLookupAnswered)

\* Some entry of the archive has the namespace and the effective title
\* (title if non-empty, else url) of the query.
TitlePresent ==
    \E i \in 0..(entryCount - 1) :
        UrlDirent(i).namespace = qns /\ TitleOrUrl(UrlDirent(i)) = qtext

\* findByTitle has returned an index into the title-pointer array whose
\* dirent has the namespace and the effective title of the query.
TitleLookupAnswered ==
    /\ pc = "done" /\ outcome = "return"
    /\ retval \in 0..(entryCount - 1)
    /\ LET d == UrlDirent(titlePtrList[retval + 1]) IN
       d.namespace = qns /\ TitleOrUrl(d) = qtext

\* A URL lookup has returned exactly the URL-pointer index u.
UrlLookupReturned(u) ==
    pc = "done" /\ outcome = "return" /\ retval = u

\* C7: on an archive whose title-pointer array is sorted by (namespace,
\* title-or-url), findByTitle called with the namespace and effective title
\* of any entry returns an index whose dirent has that namespace and
\* effective title; and the URL lookups, called with the (namespace, url) of
\* the dirent at URL-pointer index u (any dirent a title lookup can land on),
\* return u itself: the title lookup and the URL lookup reach the same entry.
C7_TitleLookupConsistent ==
    /\ [](fun = "findByTitle" /\ TitlePresent => <>TitleLookupAnswered)
    /\ \A u \in 0..MaxEntries :
          []((/\ fun \in {"findByUrl", "find_by_url"}
              /\ u < entryCount
              /\ UrlDirent(u).namespace = qns
              /\ UrlDirent(u).url = qtext) => <>UrlLookupReturned(u))

\* findByTitle has found an entry through its url (the title is empty), at a
\* place where the title order and the url order differ, after moving low.
C7_Witness ==
    /\ fun = "findByTitle" /\ TitleLookupAnswered
    /\ entryCount = MaxEntries
    /\ UrlDirent(titlePtrList[retval + 1]).title = <<>>
    /\ titlePtrList[retval + 1] # retval
    /\ low > 0

(***************************************************************************)
(* Properties of the routes.                                               *)
(***************************************************************************)
\* The dirent reached from URL-pointer index i by following k redirects
\* (the chain stops at a content dirent).
RECURSIVE Follow(_, _)
Follow(i, k) ==
    IF k = 0 \/ UrlDirent(i).kind # "redirect" THEN i
    ELSE Follow(UrlDirent(i).redirect_index, k - 1)

\* The redirect chain from index i runs into a cycle: after entryCount hops
\* it still stands on a redirect.
RedirectCycleFrom(i) == UrlDirent(Follow(i, entryCount)).kind = "redirect"

\* C2: redirect resolution started at a dirent whose redirect chain holds a
\* cycle (a redirect to itself included) ends by failing with RedirectLoop.
C2_RedirectLoopFails ==
    []((/\ route \in {"get_page", "url"}
        /\ pc = "redirect_while"
        /\ RedirectCycleFrom(dirent)) => <>(response = "RedirectLoop"))

\* C6: with the header's mainPage absent, the "/" route fails with
\* NoMainPage and has not used the absent value as an index into the
\* URL-pointer array.
C6_AbsentMainPageFails ==
    (/\ route \in {"WikiServer.index", "ZIMServer.index"}
     /\ pc = "responded"
     /\ mainPage = AbsentMainPage)
    => (response = "NoMainPage" /\ urlIndexUsed # AbsentMainPage)

(***************************************************************************)
(* Properties of the enumeration pass.                                     *)
(***************************************************************************)
\* C10: for every entryCount >= 0 the pass visits each index of
\* [0, entryCount) once, in ascending order, and ends normally: it raises
\* for no entryCount.
C10_PassVisitsEveryIndex ==
    /\ epc # "ZeroDivisionError"
    /\ visited = [j \in 1..Len(visited) |-> j - 1]
    /\ epc = "done" => Len(visited) = entryCount

\* The part of C10 that initialize_db keeps.
C10_initialize_db_Visits ==
    efun = "initialize_db" => C10_PassVisitsEveryIndex

(***************************************************************************)
(* Properties of the mimetype list.                                        *)
(***************************************************************************)
\* C9: for a mimetype list of n non-empty strings and the empty-string
\* terminator, len() is n, get(i) is the i-th string for i in [0, n), and
\* get(i) fails with IndexError (IndexOutOfRange) for i >= n.
C9_MimetypeListReads ==
    /\ op \in {"MimeTypeList.__len__", "MimetypeList.__len__"}
          => result = [kind |-> "return", value |-> Len(content)]
    /\ op \in {"MimeTypeList.__getitem__", "MimetypeList.__getitem__"}
          => result = IF arg < Len(content)
                      THEN [kind |-> "return", value |-> content[arg + 1]]
                      ELSE [kind |-> "IndexError"]

\* The part of C9 both generations keep: get(i), and len() of a list that
\* holds a string.
C9_NonEmptyListReads ==
    (op = "MimeTypeList.__len__" => Len(content) > 0) => C9_MimetypeListReads

(***************************************************************************)
(* Properties of the blobs of an uncompressed cluster.                     *)
(***************************************************************************)
\* C4: for an uncompressed cluster of N blobs, get_blob_data(i) returns the
\* bytes of blob i for every i in [0, N) and fails with IndexError
\* (IndexOutOfRange) for every i >= N.
C4_BlobReads ==
    op \in {"zimpy.structs.get_blob_data", "structs.get_blob_data"}
        => result = IF arg < Len(content)
                    THEN [kind |-> "return", value |-> content[arg + 1]]
                    ELSE [kind |-> "IndexError"]

\* The part of C4 the code keeps: src/structs.py all of it, and
\* src/zimpy/structs.py for the blobs that exist.
C4_ExistingBlobReads ==
    (op = "zimpy.structs.get_blob_data" => arg < Len(content)) => C4_BlobReads

(***************************************************************************)
(* Properties of the clusters.                                             *)
(***************************************************************************)
\* The chunks up to the first one that is not "data" are followed by "end":
\* the decoder gets to signal completion.
StreamComplete ==
    \E k \in 1..Len(stream) :
        stream[k] = "end" /\ \A j \in 1..(k - 1) : stream[j] = "data"

\* C3: concurrent requests for blobs of one compressed, never decompressed
\* cluster (src/zimpy/structs.py) decompress its body once in total, under
\* every interleaving.
C3_DecompressedOnce ==
    (module = "zimpy.structs" /\ compression(info) \in {LZMA2, ZSTD})
        => /\ decompressions <= 1
           /\ (\A t \in Threads : tpc[t] = "done") => decompressions = 1

\* C5: on an LZMA2 or Zstandard cluster whose stream is corrupt or ends
\* before the decoder signals completion, data fails with the decoder's
\* error (DecompressionError): it returns no payload.
C5_BrokenStreamFails ==
    (compression(info) \in {LZMA2, ZSTD} /\ ~ StreamComplete)
        => \A t \in Threads : got[t].kind \in {"none", "LZMAError", "ZstdError"}

\* C5, the other half: on such a cluster data ends.
C5_BrokenStreamEnds ==
    \A t \in Threads :
        []((compression(info) \in {LZMA2, ZSTD} /\ ~ StreamComplete
            /\ tpc[t] = "data_check")
           => <>(got[t].kind \in {"LZMAError", "ZstdError"}))

\* C8: on a cluster whose compression code is none of 0, 1, 4 and 5, data
\* fails with UnsupportedCompression: the body is not served as if it were
\* uncompressed.
C8_UnsupportedCompressionFails ==
    compression(info) \notin {0, 1, LZMA2, ZSTD}
        => \A t \in Threads : got[t].kind \in {"none", "UnsupportedCompression"}

(***************************************************************************)
(* Properties of the bisection steps.                                      *)
(***************************************************************************)
\* A pass of bisect's loop body that does not return.
BisectStep ==
    /\ pc = "body" /\ fun \in {"findByUrl", "findByTitle"}
    /\ pc' = "while"

\* A pass of find_by_url's loop body that does not return.
FindByUrlStep ==
    /\ pc = "body" /\ fun = "find_by_url"
    /\ pc' = "while"

\* C11: the bisection over [low, high) follows the policy: the middle is
\* floor((low + high) / 2); when the entry there is smaller than the target
\* low becomes middle + 1, when larger high becomes middle.  Hence every
\* pass that does not return strictly shrinks high - low (in find_by_url,
\* whose range is [left, right], right - left), which is why the search
\* ends.
C11_BisectionPolicy ==
    [][/\ BisectStep =>
            /\ middle = (low + high) \div 2
            /\ IF compare_function(middle) < 0
               THEN low' = middle + 1 /\ high' = high
               ELSE high' = middle /\ low' = low
            /\ high' - low' < high - low
       /\ FindByUrlStep => right' - left' < right - left]_vars

\* The steps of find_by_url do shrink its range.
C11_find_by_url_Shrinks ==
    [][FindByUrlStep => right' - left' < right - left]_vars

(***************************************************************************)
(* Properties of the cached payload.                                       *)
(***************************************************************************)
\* The complete payload of a cluster whose stream is complete: the output
\* of every chunk up to and including the one that ends the stream.
Payload ==
    LET k == CHOOSE n \in 1..Len(stream) :
                 stream[n] = "end" /\ \A j \in 1..(n - 1) : stream[j] = "data"
    IN  [j \in 1..k |-> j]

\* Some thread is executing inside data of the Cluster object k.
InsideData(k) ==
    \E t \in Threads :
        /\ cl[t] = k
        /\ tpc[t] \in {"data_check", "lzma_while", "lzma_body",
                        "zstd_while", "zstd_try"}

\* C12: whenever no caller is inside data of a compressed Cluster object, its
\* cached payload is absent (None) or the complete decompressed payload;
\* hence every call of data that returns a payload, a call after a failed
\* one included, returns the complete payload.
C12_CacheNeverPartial ==
    compression(info) \in {LZMA2, ZSTD} =>
        /\ \A k \in 1..Len(instances) :
               (~ InsideData(k) /\ instances[k].has_data)
                   => (StreamComplete /\ instances[k]._data = Payload)
        /\ \A t \in Threads :
               got[t].kind = "payload"
                   => (StreamComplete /\ got[t].data = Payload)

\* On a cluster whose stream is complete the cache is sound.
C12_CompleteStreamCached ==
    StreamComplete => C12_CacheNeverPartial

\* A call of data has failed with LZMAError, and a later call on the same
\* object has returned what the failed call left in the cache.
C12_PartialServedAfterFailure ==
    \E t, u \in Threads :
        /\ t # u /\ cl[t] = cl[u]
        /\ got[t].kind = "LZMAError"
        /\ got[u].kind = "payload"

(***************************************************************************)
(* Properties of the main page.                                            *)
(***************************************************************************)
\* The "/" route has answered on an archive whose header names a redirect
\* dirent as the main page.
MainPageIsRedirect ==
    /\ route \in {"WikiServer.index", "ZIMServer.index"}
    /\ pc = "responded"
    /\ mainPage < entryCount
    /\ UrlDirent(mainPage).kind = "redirect"

\* C13: when header.mainPage is a valid index whose dirent is a redirect,
\* the "/" route never reads cluster or blob numbers from a redirect dirent
\* and, where the chain ends, serves the content dirent at its end.
C13_MainPageFollowsRedirects ==
    MainPageIsRedirect =>
        /\ response # "AttributeError"
        /\ ~ RedirectCycleFrom(mainPage) =>
               /\ response = "200"
               /\ served = UrlDirent(Follow(mainPage, entryCount)).blobNumber

\* A main page that is a content dirent is served.
C13_ContentMainPageServed ==
    (/\ route \in {"WikiServer.index", "ZIMServer.index"}
     /\ pc = "responded"
     /\ mainPage < entryCount
     /\ UrlDirent(mainPage).kind = "content")
    => (response = "200" /\ served = UrlDirent(mainPage).blobNumber)

(***************************************************************************)
(* Properties of the strings of a dirent.                                  *)
(***************************************************************************)
\* The property read is url / title.
ReadsUrl == op \in {"zimpy.structs.Dirent.url", "structs.Dirent.url"}
ReadsTitle == op \in {"zimpy.structs.Dirent.title", "structs.Dirent.title"}

\* The string read has no NUL between its start and the end of the file.
Unterminated ==
    \/ ReadsUrl /\ content.nuls = 0
    \/ ReadsTitle /\ content.nuls < 2

\* C14: reading a dirent's url or title when no NUL lies between the
\* string's start and the end of the source fails with Truncated: no string
\* is returned.
C14_UnterminatedStringFails ==
    Unterminated => result.kind = "Truncated"

\* A string that is ended by its NUL is read as it was written.
C14_TerminatedStringRead ==
    /\ (ReadsUrl /\ content.nuls > 0)
           => result = [kind |-> "return", value |-> content.url]
    /\ (ReadsTitle /\ content.nuls = 2)
           => result = [kind |-> "return", value |-> content.title]

\* With no NUL after the url, the title is read from offset 0 of the file.
C14_TitleReadFromOffsetZero ==
    /\ op = "zimpy.structs.Dirent.title" /\ content.nuls = 0
    /\ offset > 0
    /\ result = [kind |-> "return", value |-> <<88, 89>>]

====
